---- MODULE Spec2Model ----
(***************************************************************************)
(* A model of the Moth metadata source (calibre_plugins/moth): the          *)
(* identify and download_cover entry points, the resolution of book ids,    *)
(* the fan-out of one worker thread per book id (Client.fetch_multiple),    *)
(* the relevance-keyed result maps and the three-tier identifier filter.    *)
(*                                                                         *)
(* Python values are modelled as follows.  A dict is a function whose       *)
(* DOMAIN is its key set (d.get(k) is None exactly when k is not in the     *)
(* DOMAIN).  A numeric string is its sequence of decimal digits, so that    *)
(* int() and str() are real conversions.  A cover URL is the directory     *)
(* naming its size and its file.  A search query is its sequence of tokens. *)
(***************************************************************************)
EXTENDS Integers, Sequences, FiniteSets, TLC

\* ------------------------------------------------------------------ bounds
\* Book ids known to the remote service are 1..MaxBookId.
MaxBookId == 2
\* A book of the ordinary catalogue has 0..MaxEditions editions.
MaxEditions == 2
\* A search answers with at most MaxMatches books.
MaxMatches == 2

\* ------------------------------------------------------- program constants
\* The factor of 100 * relevance in _fetch_and_add_metadata and
\* _fetch_and_add_cover_url.
RelevanceStride == 100

\* --------------------------------------------------------- python helpers
\* The value None where a string (a sequence of digits) is expected, and
\* where an integer is expected.  Neither is a value a string or an id takes.
None == <<-1>>
NoneInt == -1

Range(s) == {s[i] : i \in DOMAIN s}

\* dict.get(key) with the default None.
Get(d, k) == IF k \in DOMAIN d THEN d[k] ELSE None

\* int(s) of a string of decimal digits.
RECURSIVE IntOf(_)
IntOf(s) ==
    IF s = <<>> THEN 0 ELSE 10 * IntOf(SubSeq(s, 1, Len(s) - 1)) + s[Len(s)]

\* str(n) of a natural number: its digits without leading zeros.
RECURSIVE StrOf(_)
StrOf(n) == IF n < 10 THEN <<n>> ELSE Append(StrOf(n \div 10), n % 10)

\* The keys of a dict in ascending order, as sorted(d.items()) visits them.
RECURSIVE SortedSeq(_)
SortedSeq(S) ==
    IF S = {} THEN <<>>
    ELSE LET m == CHOOSE x \in S : \A y \in S : x <= y
         IN  <<m>> \o SortedSeq(S \ {m})

sorted(d) == SortedSeq(DOMAIN d)

\* d[key] = value on a dict.
Put(d, k, v) == [x \in DOMAIN d \cup {k} |-> IF x = k THEN v ELSE d[x]]

EmptyDict == [x \in {} |-> 0]

\* --------------------------------------------------- the remote catalogue
\* What the service answers for a book is fixed by the book id and by the
\* number of editions it lists; the number is chosen when the worker asks.
BookIds == 1..MaxBookId

EditionId(b, i) == 1000 * b + i

EditionIsbn(b, i) == IF (b + i) % 2 = 0 THEN <<7>> ELSE <<8>>

\* A cover URL: the directory that names the size, and the file.
CoverUrlOf(d, f) == [dir |-> d, file |-> f]
NoUrl == [dir |-> "none", file |-> 0]

\* The "cover" field of an edition (every second edition declares one: the
\* odd editions of an odd book, the even editions of an even book) and of a
\* book (odd books declare one); NoUrl stands for an absent field.
EditionCover(b, i) ==
    IF (b + i) % 2 = 0 THEN CoverUrlOf("normal", EditionId(b, i)) ELSE NoUrl

BookCover(b) == IF b % 2 = 1 THEN CoverUrlOf("normal", b) ELSE NoUrl

\* The outcomes of one HTTP GET (browser.open_novisit) and of decoding its
\* payload: a well-formed answer, an error _fetch catches, an error it does
\* not catch, and a payload the decoder rejects.
HttpOutcomes == {"ok", "http_error", "conn_error", "bad_json"}

\* The exception that leaves the caller for an outcome that raises.
Raised(outcome) == IF outcome = "conn_error" THEN "URLError" ELSE "JsonError"

\* The lists of book ids a search may answer with.
MatchLists ==
    UNION {[1..n -> BookIds] : n \in 0..MaxMatches}

\* ------------------------------------------------------------ the request
IdentifierKeys == {"moly", "isbn", "moly-edition"}

\* The identifiers dict holding the given values (None: the key is absent).
Identifiers(moly, isbn, edition) ==
    LET given == [k \in IdentifierKeys |->
                    CASE k = "moly" -> moly
                      [] k = "isbn" -> isbn
                      [] OTHER -> edition]
    IN  [k \in {x \in IdentifierKeys : given[x] # None} |-> given[k]]

\* "01" is a book id written with a leading zero.
MolyValues == {<<1>>, <<0, 1>>}
IsbnValues == {<<7>>}
EditionValues == {StrOf(EditionId(1, 1))}

\* A title as the tokenizer sees it: its tokens, and its tokens with the
\* subtitle stripped.
Titles ==
    { [tokens |-> <<>>, stripped |-> <<>>],
      [tokens |-> <<"t">>, stripped |-> <<"t">>],
      [tokens |-> <<"t", "s">>, stripped |-> <<"t">>] }

Authors == {<<>>, <<"a">>}

get_title_tokens(title, strip_subtitle) ==
    IF strip_subtitle THEN title.stripped ELSE title.tokens

get_author_tokens(authors) == authors

\* A variant that yields the stripped queries whether or not the stripped
\* tokens differ, against which C28 is checked.
get_search_queries_twice(request) ==
    LET title_tokens == get_title_tokens(request.title, FALSE)
        authors_tokens == get_author_tokens(request.authors)
        stripped_title_tokens == get_title_tokens(request.title, TRUE)
        both == title_tokens # <<>> /\ authors_tokens # <<>>
    IN  (IF both THEN <<title_tokens \o authors_tokens>> ELSE <<>>)
        \o (IF title_tokens # <<>> THEN <<title_tokens>> ELSE <<>>)
        \o (IF both THEN <<stripped_title_tokens \o authors_tokens>>
            ELSE <<>>)
        \o (IF title_tokens # <<>> THEN <<stripped_title_tokens>>
            ELSE <<>>)

\* _get_search_queries: the queries in the order the generator yields them.
get_search_queries(request) ==
    LET title_tokens == get_title_tokens(request.title, FALSE)
        authors_tokens == get_author_tokens(request.authors)
        stripped_title_tokens == get_title_tokens(request.title, TRUE)
        both == title_tokens # <<>> /\ authors_tokens # <<>>
    IN  (IF both THEN <<title_tokens \o authors_tokens>> ELSE <<>>)
        \o (IF title_tokens # <<>> THEN <<title_tokens>> ELSE <<>>)
        \o (IF stripped_title_tokens # title_tokens
            THEN (IF both THEN <<stripped_title_tokens \o authors_tokens>>
                  ELSE <<>>)
                 \o (IF title_tokens # <<>> THEN <<stripped_title_tokens>>
                     ELSE <<>>)
            ELSE <<>>)

\* _get_book_edition_id: the "moly-edition" identifier as an integer.
get_book_edition_id(identifiers) ==
    LET book_edition_id == Get(identifiers, "moly-edition")
    IN  IF book_edition_id = None THEN NoneInt ELSE IntOf(book_edition_id)

\* ------------------------------------------------------------ the filters
match_identifiers_strict(book_edition_id, isbn, preferred_book_edition_id, preferred_isbn) ==
    /\ (preferred_book_edition_id = NoneInt
        \/ preferred_book_edition_id = book_edition_id)
    /\ (preferred_isbn = None \/ preferred_isbn = isbn)

\* A variant in which a preference that is not set matches nothing, against
\* which C9 is checked.
match_identifiers_set_only(book_edition_id, isbn, preferred_book_edition_id, preferred_isbn) ==
    \/ (preferred_book_edition_id # NoneInt
        /\ preferred_book_edition_id = book_edition_id)
    \/ (preferred_isbn # None /\ preferred_isbn = isbn)

match_identifiers(book_edition_id, isbn, preferred_book_edition_id, preferred_isbn) ==
    \/ (preferred_book_edition_id = NoneInt
        \/ preferred_book_edition_id = book_edition_id)
    \/ (preferred_isbn = None \/ preferred_isbn = isbn)

\* The values of a dict under the given keys, in the order of the keys.
Pick(d, keys) == [j \in 1..Len(keys) |-> d[keys[j]]]

filter_metadatas_strictly(ms, preferred_book_edition_id, preferred_isbn) ==
    Pick(ms, SelectSeq(sorted(ms), LAMBDA k :
        match_identifiers_strict(
            get_book_edition_id(ms[k].identifiers),
            Get(ms[k].identifiers, "isbn"),
            preferred_book_edition_id, preferred_isbn)))

\* A variant in which the loose tier asks for both preferences, against
\* which C24 is checked.
filter_metadatas_by_both(ms, preferred_book_edition_id, preferred_isbn) ==
    Pick(ms, SelectSeq(sorted(ms), LAMBDA k :
        match_identifiers_strict(
            get_book_edition_id(ms[k].identifiers),
            Get(ms[k].identifiers, "isbn"),
            preferred_book_edition_id, preferred_isbn)))

filter_metadatas(ms, preferred_book_edition_id, preferred_isbn) ==
    Pick(ms, SelectSeq(sorted(ms), LAMBDA k :
        match_identifiers(
            get_book_edition_id(ms[k].identifiers),
            Get(ms[k].identifiers, "isbn"),
            preferred_book_edition_id, preferred_isbn)))

list_metadatas(ms) == Pick(ms, sorted(ms))

\* A variant without the loose tier, against which C10 is checked.
cascade_metadatas_two_tiers(ms, identifiers) ==
    LET book_edition_id == get_book_edition_id(identifiers)
        isbn == Get(identifiers, "isbn")
        strict == filter_metadatas_strictly(ms, book_edition_id, isbn)
    IN  IF strict # <<>> THEN strict ELSE list_metadatas(ms)

\* The three tiers of _search_and_download_metadatas, in its order.
cascade_metadatas(ms, identifiers) ==
    LET book_edition_id == get_book_edition_id(identifiers)
        isbn == Get(identifiers, "isbn")
        strict == filter_metadatas_strictly(ms, book_edition_id, isbn)
        loose == filter_metadatas(ms, book_edition_id, isbn)
    IN  IF strict # <<>> THEN strict
        ELSE IF loose # <<>> THEN loose
        ELSE list_metadatas(ms)

Urls(cs) == [j \in 1..Len(cs) |-> cs[j].url]

filter_cover_urls_strictly(cs, preferred_book_edition_id, preferred_isbn) ==
    Urls(Pick(cs, SelectSeq(sorted(cs), LAMBDA k :
        match_identifiers_strict(cs[k].book_edition_id, cs[k].isbn,
                                 preferred_book_edition_id, preferred_isbn))))

filter_cover_urls(cs, preferred_book_edition_id, preferred_isbn) ==
    Urls(Pick(cs, SelectSeq(sorted(cs), LAMBDA k :
        match_identifiers(cs[k].book_edition_id, cs[k].isbn,
                          preferred_book_edition_id, preferred_isbn))))

list_cover_urls(cs) == Urls(Pick(cs, sorted(cs)))

\* The three tiers of _search_and_download_covers, in its order.
cascade_cover_urls(cs, identifiers) ==
    LET book_edition_id == get_book_edition_id(identifiers)
        isbn == Get(identifiers, "isbn")
        strict == filter_cover_urls_strictly(cs, book_edition_id, isbn)
        loose == filter_cover_urls(cs, book_edition_id, isbn)
    IN  IF strict # <<>> THEN strict
        ELSE IF loose # <<>> THEN loose
        ELSE list_cover_urls(cs)

\* ------------------------------------------------------------- the covers
get_big_cover_url(cover_url) ==
    [cover_url EXCEPT !.dir = IF @ = "normal" THEN "big" ELSE @]

get_cover_urls(cover_url) == <<get_big_cover_url(cover_url), cover_url>>

\* ------------------------------------------------------------ the clones
\* self.browser, the network session of the host.
get_browser == 0

\* clone_browser() gives a new session each time: the one after the cloned
\* sessions made so far.
get_cloned_browser(cloned) == get_browser + cloned + 1

\* _create_request: the objects the request of the calling thread refers to,
\* the session and, by their names in this module, the cancellation signal,
\* the sink and the two result maps.
create_request ==
    [browser |-> get_browser, abort_event |-> "abort",
     results |-> "results", metadatas |-> "metadatas",
     cover_urls |-> "cover_urls"]

\* A variant that hands the worker the request of the calling thread,
\* against which C29 is checked.
clone_request_shared(parent, cloned) == parent

\* _clone_request: a new Client on a cloned session, everything else by
\* reference.
clone_request(parent, cloned) ==
    [parent EXCEPT !.browser = get_cloned_browser(cloned)]

\* A call of open_novisit: the thread (0: the calling thread, k: the worker
\* at position k) and the session.
Opens(by, browser) == [by |-> by, browser |-> browser]

\* ------------------------------------------------------------ the languages
\* A tag: its text in lower case without blanks around it, and how it is
\* written: as that text, in capitals, or with a blank after it. The marker
\* tags end with " nyelvu" (written with u double acute).
TagTexts == {"sci-fi", "angol nyelvu", "magyar nyelvu", "eszperanto nyelvu"}

TagForms == {"plain", "capitals", "padded"}

Tags == [text : TagTexts, form : TagForms]

\* The language_tags of _get_language (two of its eleven entries).
language_tags == [t \in {"angol nyelvu", "magyar nyelvu"} |->
                    IF t = "angol nyelvu" THEN "en" ELSE "hu"]

\* tag.lower().strip()
lower_strip(tag) == tag.text

\* tag.endswith(" nyelvu"): of the tag as it is written.
endswith_nyelvu(tag) ==
    /\ tag.text \in {"angol nyelvu", "magyar nyelvu", "eszperanto nyelvu"}
    /\ tag.form = "plain"

is_language_tag(tag) == endswith_nyelvu(tag)

\* _get_language: the code of the tag, or "None".
get_language(tag) ==
    IF lower_strip(tag) \in DOMAIN language_tags
    THEN language_tags[lower_strip(tag)]
    ELSE "None"

Codes(tags) == [j \in 1..Len(tags) |-> get_language(tags[j])]

\* _get_languages
get_languages(tags) ==
    LET languages == SelectSeq(Codes(tags), LAMBDA c : c # "None")
    IN  IF languages = <<>> THEN <<"hu">> ELSE languages

\* metadata.tags of _add_metadata
get_tags(tags) == SelectSeq(tags, LAMBDA tag : ~is_language_tag(tag))

\* No record has been built of a tag list.
NoTags == [tags |-> <<>>, languages |-> <<>>, kept |-> <<>>, done |-> FALSE]

\* -------------------------------------------------------------- the state
VARIABLES
    op,            \* the entry point called: "identify" or "download_cover"
    request,       \* MothRequest: title, authors, identifiers (+ the
                   \* get_best_cover argument of download_cover)
    abort,         \* abort_event.is_set()
    pc,            \* where the calling thread is
    ret,           \* what the entry point returned, or the exception that
                   \* left it ("running" until then)
    book_ids,      \* the resolved book ids
    queried,       \* the search queries sent to the service, in order
    fetchers,      \* the worker threads of fetch_multiple, by position
    next_fetcher,  \* the position of the stagger loop in fetchers
    started,       \* the (book_id, relevance) of the threads, in start order
    metadatas,     \* request.metadatas: relevance key -> metadata
    cover_urls,    \* request.cover_urls: relevance key -> CoverUrl
    written,       \* which worker wrote which key (history of the two maps)
    results,       \* request.results, the queue of the caller
    downloads,     \* the calls of download_multiple_covers: urls and flag
    isbn_cache,    \* the host's cache isbn -> edition id
    cover_cache,   \* the host's cache edition id -> cover url
    many,          \* whether the catalogue is the one in which book 1 has
                   \* more editions than RelevanceStride
    opened,        \* the number of calls of browser.open_novisit (_fetch)
    clients,       \* the cloned request of each worker that has made one:
                   \* the objects it refers to
    used,          \* which thread opened a URL through which browser
    accessed,      \* a call of a typed accessor of JsonObject: the
                   \* accessor, the value under the key and the outcome
    anchors,       \* the series anchors a SeriesParser has been fed, and
                   \* how _add_series ended on each
    series,        \* SeriesParser._series
    tagged         \* the tags of a book, and the languages and the tags
                   \* _add_metadata gives its records

\* The decoder and the parser, which a call of an entry point passes through
\* without keeping anything of them.
parser_vars == <<accessed, anchors, series, tagged>>

\* The requests of the workers and the network sessions in use.
session_vars == <<clients, used>>

vars == <<op, request, abort, pc, ret, book_ids, queried, fetchers,
          next_fetcher, started, metadatas, cover_urls, written, results,
          downloads, isbn_cache, cover_cache, many, opened, session_vars,
          parser_vars>>

\* The numbers of editions book b may list.
EditionCounts(b) ==
    IF many THEN (IF b = 1 THEN {RelevanceStride + 1} ELSE {1})
    ELSE 0..MaxEditions

\* The requests of the model.
Requests ==
    {r \in [title : Titles, authors : Authors,
            identifiers : {Identifiers(m, i, e) :
                               m \in MolyValues \cup {None},
                               i \in IsbnValues \cup {None},
                               e \in EditionValues \cup {None}},
            get_best_cover : BOOLEAN] :
        \* an author is given together with a title and a subtitle
        r.authors # <<>> <=> Len(r.title.tokens) > 1}

\* The identifier cache as an earlier identify of book 1 left it.
WarmIsbnCache == Put(EmptyDict, EditionIsbn(1, 1), EditionId(1, 1))
WarmCoverCache == Put(EmptyDict, EditionId(1, 1), EditionCover(1, 1))

\* No accessor has been called.
NoAccess == [accessor |-> "none", kind |-> "absent", outcome |-> "none"]

\* identify and download_cover begin by _create_request: empty result maps.
InitCall ==
    /\ abort = FALSE
    /\ ret = "running"
    /\ book_ids = <<>>
    /\ queried = <<>>
    /\ fetchers = <<>>
    /\ next_fetcher = 1
    /\ started = <<>>
    /\ metadatas = EmptyDict
    /\ cover_urls = EmptyDict
    /\ written = {}
    /\ results = <<>>
    /\ downloads = <<>>
    /\ opened = 0
    /\ clients = EmptyDict
    /\ used = {}
    /\ accessed = NoAccess
    /\ anchors = <<>>
    /\ series = <<>>
    /\ tagged = NoTags

Init ==
    /\ InitCall
    /\ many = FALSE
    /\ request \in Requests
    /\ \/ /\ op = "identify"
          /\ pc = "fetch_book_ids"
          /\ request.get_best_cover = FALSE
          /\ isbn_cache = EmptyDict
          /\ cover_cache = EmptyDict
       \/ /\ op = "download_cover"
          /\ pc = "cached_cover"
          /\ \/ isbn_cache = EmptyDict /\ cover_cache = EmptyDict
             \/ isbn_cache = WarmIsbnCache /\ cover_cache = WarmCoverCache

\* ------------------------------------------------------ the calling thread
\* The entry point ends: it returns value, or value is the exception that
\* leaves it.
Return(value) == ret' = value /\ pc' = "done"

\* The cancellation signal is set by the host, at any time during the call.
SetAbort ==
    /\ pc # "done"
    /\ ~abort
    /\ abort' = TRUE
    /\ UNCHANGED <<op, request, pc, ret, book_ids, queried, fetchers,
                   next_fetcher, started, metadatas, cover_urls, written,
                   results, downloads, isbn_cache, cover_cache, many, opened,
                   session_vars, parser_vars>>

\* A variant that looks the cover up by the edition id only, against which
\* C12 is checked.
get_cached_cover_url_by_edition(identifiers) ==
    LET given == Get(identifiers, "moly-edition")
    IN  IF given # None /\ IntOf(given) \in DOMAIN cover_cache
        THEN cover_cache[IntOf(given)]
        ELSE NoUrl

\* get_cached_cover_url; NoUrl stands for None.
get_cached_cover_url(identifiers) ==
    LET given == Get(identifiers, "moly-edition")
        isbn == Get(identifiers, "isbn")
        moly_edition_id ==
            IF given # None THEN given
            ELSE IF isbn # None /\ isbn \in DOMAIN isbn_cache
                 THEN StrOf(isbn_cache[isbn])
                 ELSE None
    IN  IF moly_edition_id # None
           /\ IntOf(moly_edition_id) \in DOMAIN cover_cache
        THEN cover_cache[IntOf(moly_edition_id)]
        ELSE NoUrl

\* A call of download_multiple_covers.
Download(urls, get_best_cover) ==
    [urls |-> urls, get_best_cover |-> get_best_cover]

\* download_cover, up to the search: the cached cover, if there is one, is
\* handed to the downloader (_download_cover).
DownloadCachedCover ==
    /\ pc = "cached_cover"
    /\ LET cover_url == get_cached_cover_url(request.identifiers)
       IN  IF cover_url # NoUrl
           THEN /\ downloads' = Append(downloads,
                       Download(get_cover_urls(cover_url),
                                request.get_best_cover))
                /\ Return("None")
           ELSE /\ pc' = "fetch_book_ids"
                /\ UNCHANGED <<downloads, ret>>
    /\ UNCHANGED <<op, request, abort, book_ids, queried, fetchers,
                   next_fetcher, started, metadatas, cover_urls, written,
                   results, isbn_cache, cover_cache, many, opened,
                   session_vars, parser_vars>>

\* Whether fetch_book_ids appends the id found by ISBN: the comparison
\* str(book_id_by_isbn) != book_id, book_id being the identifier or None.
differs(book_id_by_isbn, book_id) == StrOf(book_id_by_isbn) # book_id

\* A variant that takes the edition id for a book id when there is no book
\* id, against which C33 is checked.
fetch_book_ids_by_edition(identifiers, book_id_by_isbn) ==
    LET book_id == IF Get(identifiers, "moly") # None
                   THEN Get(identifiers, "moly")
                   ELSE Get(identifiers, "moly-edition")
        direct == IF book_id # None THEN <<IntOf(book_id)>> ELSE <<>>
    IN  IF book_id_by_isbn # NoneInt /\ differs(book_id_by_isbn, book_id)
        THEN Append(direct, book_id_by_isbn)
        ELSE direct

\* The ids fetch_book_ids returns when the ISBN lookup answers with
\* book_id_by_isbn (NoneInt: no answer).
fetch_book_ids(identifiers, book_id_by_isbn) ==
    LET book_id == Get(identifiers, "moly")
        direct == IF book_id # None THEN <<IntOf(book_id)>> ELSE <<>>
    IN  IF book_id_by_isbn # NoneInt /\ differs(book_id_by_isbn, book_id)
        THEN Append(direct, book_id_by_isbn)
        ELSE direct

\* A variant without the test for an empty list of ids, against which C8
\* is checked: the fan-out follows whatever was resolved.
Resolved_unchecked(ids) ==
    /\ book_ids' = ids
    /\ pc' = "fetchers"
    /\ UNCHANGED ret

\* "if not book_ids": with ids the fan-out follows, without the search.
Resolved(ids) ==
    /\ book_ids' = ids
    /\ pc' = IF ids # <<>> THEN "fetchers" ELSE "search"
    /\ UNCHANGED ret

\* request.api.fetch_book_ids(request.identifiers), with its ISBN lookup
\* (_fetch_book_id_by_isbn -> _fetch_json -> _fetch).
FetchBookIds ==
    /\ pc = "fetch_book_ids"
    /\ IF Get(request.identifiers, "isbn") = None
       THEN /\ Resolved(fetch_book_ids(request.identifiers, NoneInt))
            /\ UNCHANGED opened
       ELSE IF abort
       THEN Return("Aborted") /\ UNCHANGED <<book_ids, opened>>
       ELSE /\ opened' = opened + 1
            /\ \E outcome \in HttpOutcomes :
                 CASE outcome = "ok" ->
                        \E book_id_by_isbn \in BookIds :
                           Resolved(fetch_book_ids(request.identifiers,
                                                   book_id_by_isbn))
                   [] outcome = "http_error" ->
                        Resolved(fetch_book_ids(request.identifiers,
                                                NoneInt))
                   [] OTHER ->
                        Return(Raised(outcome)) /\ UNCHANGED book_ids
    /\ UNCHANGED clients
    /\ used' = IF opened' # opened
               THEN used \cup {Opens(0, create_request.browser)}
               ELSE used
    /\ UNCHANGED <<op, request, abort, queried, fetchers, next_fetcher,
                   started, metadatas, cover_urls, written, results, downloads,
                   isbn_cache, cover_cache, many, parser_vars>>

\* "if matches": a search that found books ends the loop of
\* _search_book_ids.
found(matches) == matches # <<>>

\* The loop "for query in self._get_search_queries(request)": whether the
\* generator is exhausted after the queries in sent, and the query it
\* yields next.
exhausted(queries, sent) == Len(sent) >= Len(queries)

next_query(queries, sent) == queries[Len(sent) + 1]

\* One turn of the loop of _search_book_ids (fetch_search_results), and its
\* end: "No matches found" when the generator is exhausted.
SearchBookIds ==
    /\ pc = "search"
    /\ LET queries == get_search_queries(request)
           query == next_query(queries, queried)
       IN  IF exhausted(queries, queried)
           THEN /\ Return("No matches found")
                /\ UNCHANGED <<book_ids, queried, opened>>
           ELSE IF abort
           THEN Return("Aborted") /\ UNCHANGED <<book_ids, queried, opened>>
           ELSE /\ queried' = Append(queried, query)
                /\ opened' = opened + 1
                /\ \E outcome \in HttpOutcomes :
                     CASE outcome = "ok" ->
                            \E matches \in MatchLists :
                               IF found(matches)
                               THEN Resolved(matches)
                               ELSE UNCHANGED <<pc, ret, book_ids>>
                       [] outcome = "http_error" ->
                            UNCHANGED <<pc, ret, book_ids>>
                       [] OTHER ->
                            Return(Raised(outcome)) /\ UNCHANGED book_ids
    /\ UNCHANGED clients
    /\ used' = IF opened' # opened
               THEN used \cup {Opens(0, create_request.browser)}
               ELSE used
    /\ UNCHANGED <<op, request, abort, fetchers, next_fetcher, started,
                   metadatas, cover_urls, written, results, downloads,
                   isbn_cache, cover_cache, many, parser_vars>>

\* A thread that has not been started.
Thread(book_id, relevance) ==
    [book_id |-> book_id, relevance |-> relevance, st |-> "new",
     n |-> 0, i |-> 0, c |-> 0, exc |-> "none"]

\* The list of threads of _fetch_and_add_metadatas and
\* _fetch_and_add_cover_urls: enumerate(book_ids) gives the relevance.
enumerate(ids) == [k \in 1..Len(ids) |-> Thread(ids[k], k - 1)]

CreateFetchers ==
    /\ pc = "fetchers"
    /\ fetchers' = enumerate(book_ids)
    /\ next_fetcher' = 1
    /\ pc' = IF book_ids = <<>> THEN "join" ELSE "start"
    /\ UNCHANGED <<op, request, abort, ret, book_ids, queried, started,
                   metadatas, cover_urls, written, results, downloads,
                   isbn_cache, cover_cache, many, opened, session_vars,
                   parser_vars>>

\* fetch_multiple, the stagger loop: fetcher.start() ...
StartFetcher ==
    /\ pc = "start"
    /\ fetchers' = [fetchers EXCEPT ![next_fetcher].st = "fetch_book"]
    /\ started' = Append(started,
                         [book_id |-> fetchers[next_fetcher].book_id,
                          relevance |-> fetchers[next_fetcher].relevance])
    /\ pc' = "check"
    /\ UNCHANGED <<op, request, abort, ret, book_ids, queried, next_fetcher,
                   metadatas, cover_urls, written, results, downloads,
                   isbn_cache, cover_cache, many, opened, session_vars,
                   parser_vars>>

\* A variant that hands over what the workers have written before it gives
\* up, against which C30 is checked.
StaggerCheck_putting ==
    /\ pc = "check"
    /\ IF abort
       THEN /\ Return("Aborted")
            /\ results' = results \o list_metadatas(metadatas)
            /\ UNCHANGED next_fetcher
       ELSE /\ next_fetcher' = next_fetcher + 1
            /\ pc' = IF next_fetcher < Len(fetchers) THEN "start" ELSE "join"
            /\ UNCHANGED <<ret, results>>
    /\ UNCHANGED <<op, request, abort, book_ids, queried, fetchers, started,
                   metadatas, cover_urls, written, downloads, isbn_cache,
                   cover_cache, many, opened, session_vars, parser_vars>>

\* ... then the test of abort_event, and time.sleep(1).
StaggerCheck ==
    /\ pc = "check"
    /\ IF abort
       THEN Return("Aborted") /\ UNCHANGED next_fetcher
       ELSE /\ next_fetcher' = next_fetcher + 1
            /\ pc' = IF next_fetcher < Len(fetchers) THEN "start" ELSE "join"
            /\ UNCHANGED ret
    /\ UNCHANGED <<op, request, abort, book_ids, queried, fetchers, started,
                   metadatas, cover_urls, written, results, downloads,
                   isbn_cache, cover_cache, many, opened, session_vars,
                   parser_vars>>

\* A variant in which a thread that died of an exception counts as alive,
\* against which C31 is checked.
is_alive_unless_returned(fetcher) == fetcher.st \notin {"new", "finished"}

is_alive(fetcher) == fetcher.st \notin {"new", "finished", "died"}

\* fetch_multiple, the join loop: it ends when no fetcher is alive.
JoinFetchers ==
    /\ pc = "join"
    /\ \A k \in DOMAIN fetchers : ~is_alive(fetchers[k])
    /\ pc' = "filter"
    /\ UNCHANGED <<op, request, abort, ret, book_ids, queried, fetchers,
                   next_fetcher, started, metadatas, cover_urls, written,
                   results, downloads, isbn_cache, cover_cache, many, opened,
                   session_vars, parser_vars>>

\* _search_and_download_metadatas after the fan-out: the filter cascade,
\* and results.put of every metadata kept.
PutMetadatas ==
    /\ pc = "filter"
    /\ op = "identify"
    /\ results' = results \o cascade_metadatas(metadatas, request.identifiers)
    /\ Return("None")
    /\ UNCHANGED <<op, request, abort, book_ids, queried, fetchers,
                   next_fetcher, started, metadatas, cover_urls, written,
                   downloads, isbn_cache, cover_cache, many, opened,
                   session_vars, parser_vars>>

\* A variant without the test "if not cover_urls", against which C11 is
\* checked: the downloader is called with whatever the cascade left.
DownloadCovers_unchecked ==
    /\ pc = "filter"
    /\ op = "download_cover"
    /\ downloads' = Append(downloads,
          Download(cascade_cover_urls(cover_urls, request.identifiers),
                   request.get_best_cover))
    /\ Return("None")
    /\ UNCHANGED <<op, request, abort, book_ids, queried, fetchers,
                   next_fetcher, started, metadatas, cover_urls, written,
                   results, isbn_cache, cover_cache, many, opened,
                   session_vars, parser_vars>>

\* _search_and_download_covers after the fan-out: the filter cascade, and
\* the call of the downloader unless no URL is left.
DownloadCovers ==
    /\ pc = "filter"
    /\ op = "download_cover"
    /\ LET urls == cascade_cover_urls(cover_urls, request.identifiers)
       IN  IF urls = <<>>
           THEN Return("Could not find covers") /\ UNCHANGED downloads
           ELSE /\ downloads' = Append(downloads,
                                       Download(urls, request.get_best_cover))
                /\ Return("None")
    /\ UNCHANGED <<op, request, abort, book_ids, queried, fetchers,
                   next_fetcher, started, metadatas, cover_urls, written,
                   results, isbn_cache, cover_cache, many, opened,
                   session_vars, parser_vars>>

\* --------------------------------------------------------------- a worker
\* The threads run _fetch_and_add_metadata (identify) or
\* _fetch_and_add_cover_url (download_cover) on a clone of the request that
\* shares abort_event, metadatas, cover_urls and results.

\* The thread ends: by returning, or by an exception nobody catches.
Finish(k) == [fetchers EXCEPT ![k].st = "finished"]
Die(k, exc) == [fetchers EXCEPT ![k].st = "died", ![k].exc = exc]

\* A variant of fetch_book whose _fetch does not look at the cancellation
\* signal, against which C14 is checked.
FetchBook_unchecked(k) ==
    /\ fetchers[k].st = "fetch_book"
    /\ opened' = opened + 1
    /\ \E outcome \in HttpOutcomes :
         CASE outcome = "ok" ->
                fetchers' = [fetchers EXCEPT ![k].st =
                   IF op = "identify" THEN "fetch_book_series"
                   ELSE "fetch_book_editions"]
           [] outcome = "http_error" -> fetchers' = Finish(k)
           [] OTHER -> fetchers' = Die(k, Raised(outcome))
    /\ clients' = Put(clients, k, clone_request(create_request,
                                  Cardinality(DOMAIN clients)))
    /\ used' = IF opened' # opened
               THEN used \cup {Opens(k, clients'[k].browser)}
               ELSE used
    /\ UNCHANGED <<op, request, abort, pc, ret, book_ids, queried,
                   next_fetcher, started, metadatas, cover_urls, written,
                   results, downloads, isbn_cache, cover_cache, many,
                   parser_vars>>

\* cloned_request.api.fetch_book(book_id); "if book is None: return".
FetchBook(k) ==
    /\ fetchers[k].st = "fetch_book"
    /\ IF abort
       THEN fetchers' = Die(k, "Aborted") /\ UNCHANGED opened
       ELSE /\ opened' = opened + 1
            /\ \E outcome \in HttpOutcomes :
                 CASE outcome = "ok" ->
                        fetchers' = [fetchers EXCEPT ![k].st =
                           IF op = "identify" THEN "fetch_book_series"
                           ELSE "fetch_book_editions"]
                   [] outcome = "http_error" -> fetchers' = Finish(k)
                   [] OTHER -> fetchers' = Die(k, Raised(outcome))
    /\ clients' = Put(clients, k, clone_request(create_request,
                                  Cardinality(DOMAIN clients)))
    /\ used' = IF opened' # opened
               THEN used \cup {Opens(k, clients'[k].browser)}
               ELSE used
    /\ UNCHANGED <<op, request, abort, pc, ret, book_ids, queried,
                   next_fetcher, started, metadatas, cover_urls, written,
                   results, downloads, isbn_cache, cover_cache, many,
                   parser_vars>>

\* cloned_request.api.fetch_book_series(book): without an answer the book
\* has no series.
FetchBookSeries(k) ==
    /\ fetchers[k].st = "fetch_book_series"
    /\ IF abort
       THEN fetchers' = Die(k, "Aborted") /\ UNCHANGED opened
       ELSE /\ opened' = opened + 1
            /\ \E outcome \in HttpOutcomes :
                 IF outcome \in {"ok", "http_error"}
                 THEN fetchers' = [fetchers EXCEPT ![k].st =
                                       "fetch_book_editions"]
                 ELSE fetchers' = Die(k, Raised(outcome))
    /\ UNCHANGED clients
    /\ used' = IF opened' # opened
               THEN used \cup {Opens(k, clients[k].browser)}
               ELSE used
    /\ UNCHANGED <<op, request, abort, pc, ret, book_ids, queried,
                   next_fetcher, started, metadatas, cover_urls, written,
                   results, downloads, isbn_cache, cover_cache, many,
                   parser_vars>>

\* The thread has n editions to add; with none it returns.
Editions(k, n) ==
    IF n = 0 THEN Finish(k)
    ELSE [fetchers EXCEPT ![k].st = "add", ![k].n = n]

\* cloned_request.api.fetch_book_editions(book_id): without an answer the
\* book has no editions.
FetchBookEditions(k) ==
    /\ fetchers[k].st = "fetch_book_editions"
    /\ IF abort
       THEN fetchers' = Die(k, "Aborted") /\ UNCHANGED opened
       ELSE /\ opened' = opened + 1
            /\ \E outcome \in HttpOutcomes :
                 CASE outcome = "ok" ->
                        \E n \in EditionCounts(fetchers[k].book_id) :
                           fetchers' = Editions(k, n)
                   [] outcome = "http_error" -> fetchers' = Editions(k, 0)
                   [] OTHER -> fetchers' = Die(k, Raised(outcome))
    /\ UNCHANGED clients
    /\ used' = IF opened' # opened
               THEN used \cup {Opens(k, clients[k].browser)}
               ELSE used
    /\ UNCHANGED <<op, request, abort, pc, ret, book_ids, queried,
                   next_fetcher, started, metadatas, cover_urls, written,
                   results, downloads, isbn_cache, cover_cache, many,
                   parser_vars>>

\* A variant in which the counter of a worker starts at its rank, against
\* which C21 is checked.
relevance_key_unscaled(relevance, c) == relevance + c

\* next(relevance_counter) of itertools.count(100 * relevance), after c
\* numbers were taken.
relevance_key(relevance, c) == RelevanceStride * relevance + c

\* A variant in which every record is marked as having a cached cover,
\* against which C23 is checked.
Metadata_marked(b, i, relevance) ==
    [identifiers |-> Identifiers(StrOf(b), EditionIsbn(b, i),
                                 StrOf(EditionId(b, i))),
     has_cached_cover_url |-> TRUE,
     source_relevance |-> relevance]

\* The metadata _add_metadata builds for edition i of book b.
Metadata(b, i, relevance) ==
    [identifiers |-> Identifiers(StrOf(b), EditionIsbn(b, i),
                                 StrOf(EditionId(b, i))),
     has_cached_cover_url |-> EditionCover(b, i) # NoUrl,
     source_relevance |-> relevance]

\* The thread has dealt with edition i: the loop goes on, or ends.
Advance(k, c) ==
    LET f == fetchers[k]
    IN  [fetchers EXCEPT ![k].i = f.i + 1, ![k].c = c,
                         ![k].st = IF f.i + 1 = f.n THEN "finished"
                                   ELSE "add"]

\* One turn of the loop of _add_metadatas: _add_metadata of the next
\* edition, which raises on a malformed book or edition.
AddMetadata(k) ==
    /\ op = "identify"
    /\ fetchers[k].st = "add"
    /\ LET f == fetchers[k]
           b == f.book_id
           i == f.i + 1
           relevance == relevance_key(f.relevance, f.c)
       IN  \E well_formed \in BOOLEAN :
              IF well_formed
              THEN /\ metadatas' = Put(metadatas, relevance,
                                       Metadata(b, i, relevance))
                   /\ written' = written \cup
                          {[relevance |-> f.relevance, key |-> relevance]}
                   /\ IF EditionCover(b, i) # NoUrl
                      THEN /\ isbn_cache' = Put(isbn_cache, EditionIsbn(b, i),
                                                EditionId(b, i))
                           /\ cover_cache' = Put(cover_cache, EditionId(b, i),
                                                 EditionCover(b, i))
                      ELSE UNCHANGED <<isbn_cache, cover_cache>>
                   /\ fetchers' = Advance(k, f.c + 1)
              ELSE /\ fetchers' = Die(k, "JsonError")
                   /\ UNCHANGED <<metadatas, written, isbn_cache,
                                  cover_cache>>
    /\ UNCHANGED <<op, request, abort, pc, ret, book_ids, queried,
                   next_fetcher, started, cover_urls, results, downloads, many,
                   opened, session_vars, parser_vars>>

\* A variant without the fallback to the cover of the book, against which
\* C22 is checked.
cover_of_edition(b, i) == EditionCover(b, i)

\* The cover of an edition: its own, or else the book's.
cover_of(b, i) ==
    IF EditionCover(b, i) # NoUrl THEN EditionCover(b, i) ELSE BookCover(b)

CoverUrl(b, i, url) ==
    [book_id |-> b, book_edition_id |-> EditionId(b, i),
     isbn |-> EditionIsbn(b, i), url |-> url]

\* One turn of the loop of _add_cover_urls, up to its first _add_cover_url:
\* an edition without a cover is skipped, else the big URL is added.
AddBigCoverUrl(k) ==
    /\ op = "download_cover"
    /\ fetchers[k].st = "add"
    /\ LET f == fetchers[k]
           b == f.book_id
           i == f.i + 1
           relevance == relevance_key(f.relevance, f.c)
       IN  \E well_formed \in BOOLEAN :
              IF ~well_formed
              THEN fetchers' = Die(k, "JsonError")
                   /\ UNCHANGED <<cover_urls, written>>
              ELSE IF cover_of(b, i) = NoUrl
              THEN fetchers' = Advance(k, f.c)
                   /\ UNCHANGED <<cover_urls, written>>
              ELSE /\ cover_urls' = Put(cover_urls, relevance,
                          CoverUrl(b, i, get_big_cover_url(cover_of(b, i))))
                   /\ written' = written \cup
                          {[relevance |-> f.relevance, key |-> relevance]}
                   /\ fetchers' = [fetchers EXCEPT ![k].st = "add_cover_url",
                                                   ![k].c = f.c + 1]
    /\ UNCHANGED <<op, request, abort, pc, ret, book_ids, queried,
                   next_fetcher, started, metadatas, results, downloads,
                   isbn_cache, cover_cache, many, opened, session_vars,
                   parser_vars>>

\* ... and its second _add_cover_url: the URL as the service gave it.
AddCoverUrl(k) ==
    /\ fetchers[k].st = "add_cover_url"
    /\ LET f == fetchers[k]
           b == f.book_id
           i == f.i + 1
           relevance == relevance_key(f.relevance, f.c)
       IN  /\ cover_urls' = Put(cover_urls, relevance,
                                CoverUrl(b, i, cover_of(b, i)))
           /\ written' = written \cup
                  {[relevance |-> f.relevance, key |-> relevance]}
           /\ fetchers' = Advance(k, f.c + 1)
    /\ UNCHANGED <<op, request, abort, pc, ret, book_ids, queried,
                   next_fetcher, started, metadatas, results, downloads,
                   isbn_cache, cover_cache, many, opened, session_vars,
                   parser_vars>>

Next ==
    \/ SetAbort
    \/ DownloadCachedCover
    \/ FetchBookIds
    \/ SearchBookIds
    \/ CreateFetchers
    \/ StartFetcher
    \/ StaggerCheck
    \/ JoinFetchers
    \/ PutMetadatas
    \/ DownloadCovers
    \/ \E k \in DOMAIN fetchers : FetchBook(k)
    \/ \E k \in DOMAIN fetchers : FetchBookSeries(k)
    \/ \E k \in DOMAIN fetchers : FetchBookEditions(k)
    \/ \E k \in DOMAIN fetchers : AddMetadata(k)
    \/ \E k \in DOMAIN fetchers : AddBigCoverUrl(k)
    \/ \E k \in DOMAIN fetchers : AddCoverUrl(k)

Spec == Init /\ [][Next]_vars

\* ------------------------------------------- books with very many editions
\* The same program on a catalogue in which book 1 lists
\* RelevanceStride + 1 editions and every other book one, called with the
\* direct book id 1 and never cancelled.
InitMany ==
    /\ InitCall
    /\ many = TRUE
    /\ request \in Requests
    /\ Get(request.identifiers, "moly") = <<1>>
    /\ "moly-edition" \notin DOMAIN request.identifiers
    /\ request.title.tokens = <<>>
    /\ request.get_best_cover = FALSE
    /\ isbn_cache = EmptyDict
    /\ cover_cache = EmptyDict
    /\ \/ op = "identify" /\ pc = "fetch_book_ids"
       \/ op = "download_cover" /\ pc = "cached_cover"

NextMany ==
    \/ DownloadCachedCover
    \/ FetchBookIds
    \/ CreateFetchers
    \/ StartFetcher
    \/ StaggerCheck
    \/ JoinFetchers
    \/ PutMetadatas
    \/ DownloadCovers
    \/ \E k \in DOMAIN fetchers : FetchBook(k)
    \/ \E k \in DOMAIN fetchers : FetchBookSeries(k)
    \/ \E k \in DOMAIN fetchers : FetchBookEditions(k)
    \/ \E k \in DOMAIN fetchers : AddMetadata(k)
    \/ \E k \in DOMAIN fetchers : AddBigCoverUrl(k)
    \/ \E k \in DOMAIN fetchers : AddCoverUrl(k)

SpecMany == InitMany /\ [][NextMany]_vars

\* -------------------------------------------------------- the fan-out alone
\* The calls that carry a direct book id and no title, and are not
\* cancelled: the resolution of the ids, the fan-out and the filters.
InitFanOut ==
    /\ Init
    /\ "moly" \in DOMAIN request.identifiers
    /\ request.title.tokens = <<>>

NextFanOut == NextMany

SpecFanOut == InitFanOut /\ [][NextFanOut]_vars

\* ---------------------------------------------------- the filters alone
\* The end of a search whose fan-out left any candidates whatever in the
\* result maps: up to MaxCandidates keys, of two ranks, each candidate with
\* one of two edition ids and one of two ISBNs; the request prefers any
\* edition id (one written with a leading zero, one no candidate has) and
\* any ISBN (one no candidate has).  Both maps hold the same candidates.
MaxCandidates == 3

CandidateKeys ==
    {relevance_key(j % 2, j \div 2) : j \in 0..(MaxCandidates - 1)}

CandidateMaps ==
    UNION {[K -> [edition : {EditionId(1, 1), EditionId(1, 2)},
                  isbn : {<<7>>, <<8>>}]] : K \in SUBSET CandidateKeys}

MetadataOf(cand, key) ==
    [identifiers |-> Identifiers(StrOf(1), cand.isbn, StrOf(cand.edition)),
     has_cached_cover_url |-> FALSE,
     source_relevance |-> key]

CoverUrlFor(cand, key) ==
    [book_id |-> 1, book_edition_id |-> cand.edition, isbn |-> cand.isbn,
     url |-> CoverUrlOf("normal", key)]

InitFilter ==
    /\ abort = FALSE
    /\ ret = "running"
    /\ book_ids = <<>>
    /\ queried = <<>>
    /\ fetchers = <<>>
    /\ next_fetcher = 1
    /\ started = <<>>
    /\ written = {}
    /\ results = <<>>
    /\ downloads = <<>>
    /\ opened = 0
    /\ clients = EmptyDict
    /\ used = {}
    /\ accessed = NoAccess
    /\ anchors = <<>>
    /\ series = <<>>
    /\ tagged = NoTags
    /\ many = FALSE
    /\ isbn_cache = EmptyDict
    /\ cover_cache = EmptyDict
    /\ pc = "filter"
    /\ op \in {"identify", "download_cover"}
    /\ \E e \in {None, StrOf(EditionId(1, 1)), <<0>> \o StrOf(EditionId(1, 1)),
                 StrOf(EditionId(1, 3))},
          i \in {None, <<7>>, <<9>>} :
          request = [title |-> [tokens |-> <<>>, stripped |-> <<>>],
                     authors |-> <<>>,
                     identifiers |-> Identifiers(None, i, e),
                     get_best_cover |-> FALSE]
    /\ \E cands \in CandidateMaps :
          /\ metadatas = [k \in DOMAIN cands |-> MetadataOf(cands[k], k)]
          /\ cover_urls = [k \in DOMAIN cands |-> CoverUrlFor(cands[k], k)]

NextFilter == PutMetadatas \/ DownloadCovers

SpecFilter == InitFilter /\ [][NextFilter]_vars

\* --------------------------------------------------------- no call at all
\* The plugin between two calls: what the specifications of the decoder and
\* of the series parser leave untouched.
Idle ==
    /\ op = "none"
    /\ request = [title |-> [tokens |-> <<>>, stripped |-> <<>>],
                  authors |-> <<>>, identifiers |-> EmptyDict,
                  get_best_cover |-> FALSE]
    /\ abort = FALSE
    /\ pc = "idle"
    /\ ret = "none"
    /\ book_ids = <<>>
    /\ queried = <<>>
    /\ fetchers = <<>>
    /\ next_fetcher = 1
    /\ started = <<>>
    /\ metadatas = EmptyDict
    /\ cover_urls = EmptyDict
    /\ written = {}
    /\ results = <<>>
    /\ downloads = <<>>
    /\ isbn_cache = EmptyDict
    /\ cover_cache = EmptyDict
    /\ many = FALSE
    /\ opened = 0
    /\ clients = EmptyDict
    /\ used = {}

pipeline_vars ==
    <<op, request, abort, pc, ret, book_ids, queried, fetchers,
      next_fetcher, started, metadatas, cover_urls, written, results,
      downloads, isbn_cache, cover_cache, many, opened, session_vars>>

\* ------------------------------------------------------- the JSON decoder
\* What self._object holds under the key: nothing, or a JSON value of one of
\* the kinds ("scalars": a list whose elements are not objects).
JsonKinds ==
    {"absent", "null", "bool", "int", "float", "str", "list", "scalars",
     "object"}

Accessors ==
    {"get_object", "get_list", "get_optional_int", "get_int", "get_float",
     "get_optional_str", "get_str"}

\* "self._object.get(key) is None": the key is absent or holds null.
is_none(kind) == kind \in {"absent", "null"}

\* isinstance(value, int): bool is a subclass of int.
isinstance_int(kind) == kind \in {"int", "bool"}

\* The accessors: "value" stands for the value returned, "None" for None,
\* and the name of an exception for the exception raised.
get_object(kind) ==
    IF is_none(kind) THEN "LookupError"
    ELSE IF kind # "object" THEN "JsonError"
    ELSE "value"

\* The list comprehension builds a JsonObject of every element, which
\* raises JsonError on an element that is not an object.
get_list(kind) ==
    IF is_none(kind) THEN "LookupError"
    ELSE IF kind \notin {"list", "scalars"} THEN "JsonError"
    ELSE IF kind = "scalars" THEN "JsonError"
    ELSE "value"

get_optional_int(kind) ==
    IF is_none(kind) THEN "None"
    ELSE IF ~isinstance_int(kind) THEN "JsonError"
    ELSE "value"

get_int(kind) ==
    IF get_optional_int(kind) = "None" THEN "LookupError"
    ELSE get_optional_int(kind)

get_float(kind) ==
    IF is_none(kind) THEN "LookupError"
    ELSE IF kind # "float" THEN "LookupError"
    ELSE "value"

get_optional_str(kind) ==
    IF is_none(kind) THEN "None"
    ELSE IF kind # "str" THEN "JsonError"
    ELSE "value"

get_str(kind) ==
    IF get_optional_str(kind) = "None" THEN "LookupError"
    ELSE get_optional_str(kind)

Call(accessor, kind) ==
    CASE accessor = "get_object" -> get_object(kind)
      [] accessor = "get_list" -> get_list(kind)
      [] accessor = "get_optional_int" -> get_optional_int(kind)
      [] accessor = "get_int" -> get_int(kind)
      [] accessor = "get_float" -> get_float(kind)
      [] accessor = "get_optional_str" -> get_optional_str(kind)
      [] OTHER -> get_str(kind)

\* One accessor is called on an object that holds a value of one kind, or
\* nothing, under the key.
InitJson ==
    /\ Idle
    /\ anchors = <<>>
    /\ series = <<>>
    /\ tagged = NoTags
    /\ accessed \in [accessor : Accessors, kind : JsonKinds,
                     outcome : {"pending"}]

Access ==
    /\ accessed.outcome = "pending"
    /\ accessed' = [accessed EXCEPT
                       !.outcome = Call(accessed.accessor, accessed.kind)]
    /\ UNCHANGED <<pipeline_vars, anchors, series, tagged>>

NextJson == Access

SpecJson == InitJson /\ [][NextJson]_vars

\* ------------------------------------------------------ the series parser
\* An extraction run is fed at most MaxAnchors series anchors.
MaxAnchors == 3

\* The suffix of a label that the pattern takes as group 2, digits with
\* dots or commas between them: "<whole>", "<whole>.<frac>" or
\* "<whole>.<frac>.<rest>"; NoSuffix: the pattern does not match the label.
NoSuffix == [whole |-> <<>>, frac |-> <<>>, rest |-> <<>>]

Suffixes ==
    {NoSuffix, [whole |-> <<0>>, frac |-> <<>>, rest |-> <<>>],
     [whole |-> <<2>>, frac |-> <<>>, rest |-> <<>>],
     [whole |-> <<3>>, frac |-> <<5>>, rest |-> <<>>],
     [whole |-> <<1>>, frac |-> <<2>>, rest |-> <<3>>]}

\* The label of an anchor: the text before the suffix, and the suffix.
Labels == [name : {"A", "B"}, suffix : Suffixes]

SeriesUrls == {"/sorozatok/u1", "/sorozatok/u2"}

\* float(series_index) raises ValueError on a text with two separators.
float_raises(suffix) == suffix.rest # <<>>

\* How _add_series ends on a label: by returning, or by the ValueError of
\* _parse_series_index, which nothing catches.
add_series_raises(text) ==
    IF text.suffix # NoSuffix /\ float_raises(text.suffix) THEN "ValueError"
    ELSE "none"

\* _parse_series_index: the float of the suffix, in tenths, when float
\* returns.
parse_series_index(suffix) ==
    10 * IntOf(suffix.whole)
       + (IF suffix.frac = <<>> THEN 0 ELSE suffix.frac[1])

\* The name and the index _add_series reads from a label: without a numeric
\* suffix the index is 0.0.
series_index_of(text) ==
    IF text.suffix # NoSuffix THEN parse_series_index(text.suffix) ELSE 0

Series(name, index, url) ==
    [series |-> name, series_index |-> index, url |-> url]

\* A variant that takes every index that is not zero, against which C16 is
\* checked.
add_series_last_index(stored, text, url) ==
    LET series_index == series_index_of(text)
        same == {j \in DOMAIN stored : stored[j].url = url}
    IN  IF same # {}
        THEN [j \in DOMAIN stored |->
                IF j \in same /\ series_index # 0
                THEN [stored[j] EXCEPT !.series_index = series_index]
                ELSE stored[j]]
        ELSE Append(stored, Series(text.name, series_index, url))

\* _add_series: the list after the anchor (text, url); the loop returns at
\* the first entry with the URL.
add_series(stored, text, url) ==
    LET series_index == series_index_of(text)
        same == {j \in DOMAIN stored : stored[j].url = url}
    IN  IF same # {}
        THEN LET index == CHOOSE j \in same : \A l \in same : j <= l
             IN  IF stored[index].series_index = 0 /\ series_index # 0
                 THEN [stored EXCEPT ![index].series_index = series_index]
                 ELSE stored
        ELSE Append(stored, Series(text.name, series_index, url))

InitSeries ==
    /\ Idle
    /\ accessed = NoAccess
    /\ anchors = <<>>
    /\ series = <<>>
    /\ tagged = NoTags

\* handle_endtag of a series anchor: _add_series(self._text, self._url). An
\* exception leaves feed, and with it the parser.
AddSeries ==
    /\ Len(anchors) < MaxAnchors
    /\ \A j \in DOMAIN anchors : anchors[j].exc = "none"
    /\ \E text \in Labels, url \in SeriesUrls :
          /\ anchors' = Append(anchors, [text |-> text, url |-> url,
                                         exc |-> add_series_raises(text)])
          /\ series' = IF add_series_raises(text) = "none"
                       THEN add_series(series, text, url)
                       ELSE series
    /\ UNCHANGED <<pipeline_vars, accessed, tagged>>

NextSeries == AddSeries

SpecSeries == InitSeries /\ [][NextSeries]_vars

\* ------------------------------------------------- the calls under fairness
\* The calls with the book id 1 alone or with nothing, and identify with a
\* title, its subtitle and authors alone, on a cold cache, under the assumption
\* that the calling thread and every worker thread take their next step
\* when they can: a network call returns or fails, and the scheduler lets
\* no thread wait for ever. The host sets the cancellation signal when it
\* likes, or never.
InitFair ==
    /\ Init
    /\ DOMAIN request.identifiers \subseteq {"moly"}
    /\ Get(request.identifiers, "moly") \in {None, <<1>>}
    /\ request.title.tokens # <<>> => request.identifiers = EmptyDict
    /\ request.title.tokens # <<"t">>
    /\ op = "download_cover" => request.title.tokens = <<>>
    /\ request.get_best_cover = FALSE
    /\ isbn_cache = EmptyDict

\* The steps of the calling thread.
Caller ==
    \/ DownloadCachedCover
    \/ FetchBookIds
    \/ SearchBookIds
    \/ CreateFetchers
    \/ StartFetcher
    \/ StaggerCheck
    \/ JoinFetchers
    \/ PutMetadatas
    \/ DownloadCovers

\* The steps of the worker thread at position k.
Worker(k) ==
    /\ k \in DOMAIN fetchers
    /\ \/ FetchBook(k)
       \/ FetchBookSeries(k)
       \/ FetchBookEditions(k)
       \/ AddMetadata(k)
       \/ AddBigCoverUrl(k)
       \/ AddCoverUrl(k)

\* A call has at most as many workers as a search gives matches (a direct
\* id gives one).
MaxFetchers == IF MaxMatches > 1 THEN MaxMatches ELSE 1

NextFair == Next

Fairness ==
    /\ WF_vars(Caller)
    /\ \A k \in 1..MaxFetchers : WF_vars(Worker(k))

SpecFair == InitFair /\ [][NextFair]_vars /\ Fairness

\* ------------------------------------------------ the resolution alone
\* identify called without a book id: the ISBN lookup, if there is an ISBN,
\* and the search.
InitResolve ==
    /\ Init
    /\ op = "identify"
    /\ "moly" \notin DOMAIN request.identifiers

NextResolve ==
    \/ SetAbort
    \/ FetchBookIds
    \/ SearchBookIds

SpecResolve == InitResolve /\ [][NextResolve]_vars

\* ------------------------------------------------ the languages of a record
\* A book has at most MaxTags tags.
MaxTags == 2

TagLists == UNION {[1..n -> Tags] : n \in 0..MaxTags}

InitLanguages ==
    /\ Idle
    /\ accessed = NoAccess
    /\ anchors = <<>>
    /\ series = <<>>
    /\ tagged \in {[NoTags EXCEPT !.tags = tags] : tags \in TagLists}

\* _add_metadata: metadata.languages and metadata.tags of the tags of the
\* book.
AddLanguages ==
    /\ ~tagged.done
    /\ tagged' = [tagged EXCEPT !.languages = get_languages(tagged.tags),
                                !.kept = get_tags(tagged.tags),
                                !.done = TRUE]
    /\ UNCHANGED <<pipeline_vars, accessed, anchors, series>>

NextLanguages == AddLanguages

SpecLanguages == InitLanguages /\ [][NextLanguages]_vars

\* ---------------------------------------------------------- the search
\* identify called without identifiers, with every title and with or
\* without authors: the search follows at once. The titles include one of
\* two words without a subtitle, and one of which nothing is left when its
\* subtitle is stripped (as of "The: s", of which "The" is left, a word
\* get_title_tokens drops).
QueryRequests ==
    [title : Titles \cup {[tokens |-> <<"t", "s">>,
                           stripped |-> <<"t", "s">>],
                          [tokens |-> <<"s">>, stripped |-> <<>>]},
     authors : Authors, identifiers : {EmptyDict},
     get_best_cover : {FALSE}]

InitQueries ==
    /\ InitCall
    /\ many = FALSE
    /\ request \in QueryRequests
    /\ op = "identify"
    /\ pc = "fetch_book_ids"
    /\ isbn_cache = EmptyDict
    /\ cover_cache = EmptyDict

NextQueries ==
    \/ SetAbort
    \/ FetchBookIds
    \/ SearchBookIds

SpecQueries == InitQueries /\ [][NextQueries]_vars

\* ============================================================== the claims
\* The keys of rank r: [100 r, 100 r + 99].
KeysOfRank(r) ==
    (RelevanceStride * r)..(RelevanceStride * r + RelevanceStride - 1)

\* The call has ended by a return of the search, after its fan-out.
Completed == pc = "done" /\ ret \in {"None", "Could not find covers"}
             /\ fetchers # <<>>

\* C1: every key a worker of rank r writes into the result maps lies in
\* [100 r, 100 r + 99], for any number of editions, so that workers of
\* different ranks never write the same key.
C1_KeysPartitionedByRank ==
    /\ \A w \in written : w.key \in KeysOfRank(w.relevance)
    /\ \A v, w \in written : v.relevance # w.relevance => v.key # w.key

\* The keys the worker at position k has written on the metadata path.
KeysWritten(k) ==
    {relevance_key(fetchers[k].relevance, c) : c \in 0..(fetchers[k].i - 1)}

\* request.metadatas as it is when the workers run one after the other, in
\* rank order: the worker of the highest rank that writes a key is the last
\* to write it.
SequentialMetadatas ==
    [key \in UNION {KeysWritten(k) : k \in DOMAIN fetchers} |->
        LET k == CHOOSE x \in DOMAIN fetchers :
                    /\ key \in KeysWritten(x)
                    /\ \A y \in DOMAIN fetchers :
                          key \in KeysWritten(y) => y <= x
            f == fetchers[k]
        IN  Metadata(f.book_id,
                     key - relevance_key(f.relevance, 0) + 1, key)]

Ascending(keys) ==
    \A i, j \in DOMAIN keys : i < j => keys[i] < keys[j]

\* C2: for the answers the workers received, what identify puts into the
\* sink does not depend on the order in which the workers complete (it is
\* what the rank-order sequential run puts), it is put after every worker
\* has ended, and in strictly ascending order of the relevance key.
C2_SinkIndependentOfCompletionOrder ==
    /\ results # <<>> => \A k \in DOMAIN fetchers : ~is_alive(fetchers[k])
    /\ Ascending([j \in DOMAIN results |-> results[j].source_relevance])
    /\ (op = "identify" /\ Completed) =>
          results = cascade_metadatas(SequentialMetadatas,
                                      request.identifiers)

\* C3: a fan-out that is not cancelled starts one worker per resolved id, in
\* rank order, the k-th with (id_k, k); identify with only a direct book id
\* starts one worker, and every record it puts into the sink has a key in
\* [0, 99], in ascending order.
C3_OneWorkerPerIdInRankOrder ==
    /\ (pc \in {"join", "filter"} \/ Completed) =>
          started = [k \in DOMAIN book_ids |->
                        [book_id |-> book_ids[k], relevance |-> k - 1]]
    /\ (op = "identify" /\ Completed
        /\ DOMAIN request.identifiers = {"moly"}) =>
          /\ Len(started) = 1
          /\ started[1].relevance = 0
          /\ \A j \in DOMAIN results :
                results[j].source_relevance \in KeysOfRank(0)
          /\ Ascending([j \in DOMAIN results |->
                           results[j].source_relevance])

\* C4: when the cancellation signal is already set as the fan-out begins,
\* the calling thread starts no worker and the call returns "Aborted".
C4_NoWorkerStartedWhenAborted ==
    [][(pc = "start" /\ next_fetcher = 1 /\ abort) =>
          /\ started' = <<>>
          /\ (pc' = "done" => ret' = "Aborted")]_vars

\* C5: whenever a network operation of the call has raised Aborted, in the
\* calling thread or inside a worker, the entry point returns "Aborted".
C5_AbortedAlwaysReported ==
    (pc = "done" /\ \E k \in DOMAIN fetchers : fetchers[k].exc = "Aborted")
       => ret = "Aborted"

\* The resolution of the book ids has ended with the ids in book_ids.
ResolvedIds == pc \in {"fetchers", "start", "check", "join", "filter"}

\* C6: for a request with a direct book id the resolved list begins with
\* that id, holds at most the id found by ISBN after it, and that only when
\* an ISBN is given and denotes another book, so that no id occurs twice;
\* and no search query is sent for such a request.
C6_DirectIdResolution ==
    "moly" \in DOMAIN request.identifiers =>
       /\ queried = <<>>
       /\ pc # "search"
       /\ ResolvedIds =>
             /\ book_ids # <<>>
             /\ book_ids[1] = IntOf(request.identifiers["moly"])
             /\ Len(book_ids) <= 2
             /\ Len(book_ids) = 2 =>
                   /\ "isbn" \in DOMAIN request.identifiers
                   /\ book_ids[2] # book_ids[1]

IsPrefix(s, t) == Len(s) <= Len(t) /\ s = SubSeq(t, 1, Len(s))

\* C7: the queries are sent in the order of their generation; once a
\* search has found books no further query is sent; and a query whose
\* search yields nothing, by an empty answer or by a transport failure, is
\* followed by the next query, or by the end of the search when it was the
\* last.
C7_QueriesInOrderFirstHitWins ==
    /\ [](IsPrefix(queried, get_search_queries(request)))
    /\ [][book_ids # <<>> => queried' = queried]_vars
    /\ [][(pc = "search" /\ queried' # queried /\ book_ids' = <<>>) =>
             (pc' = "search" \/ ret' = "JsonError")]_vars

\* C8: when the identifiers resolve to no id and every search query has
\* been sent and has found nothing, the call returns "No matches found" as
\* its value, no worker is started and nothing is put into the sink; and a
\* call that resolved no id never ends as a search that found books does.
C8_NoMatchesFound ==
    /\ [](ret = "No matches found" =>
             /\ pc = "done"
             /\ book_ids = <<>>
             /\ queried = get_search_queries(request)
             /\ fetchers = <<>> /\ started = <<>>
             /\ results = <<>> /\ downloads = <<>>)
    /\ []((pc = "done" /\ book_ids = <<>> /\ downloads = <<>>) =>
             ret \in {"No matches found", "Aborted", "URLError",
                      "JsonError"})
    /\ [][(pc = "search" /\ pc' # pc
           /\ exhausted(get_search_queries(request), queried)) =>
             (pc' = "done" /\ ret' = "No matches found")]_vars

\* The search ended without a match after more than one query.
C8_Witness ==
    pc = "done" /\ ret = "No matches found" /\ Len(queried) > 1

\* The preferences of the request.
Preferred == <<get_book_edition_id(request.identifiers),
               Get(request.identifiers, "isbn")>>

StrictMetadatas ==
    filter_metadatas_strictly(metadatas, Preferred[1], Preferred[2])
LooseMetadatas == filter_metadatas(metadatas, Preferred[1], Preferred[2])
StrictCoverUrls ==
    filter_cover_urls_strictly(cover_urls, Preferred[1], Preferred[2])
LooseCoverUrls == filter_cover_urls(cover_urls, Preferred[1], Preferred[2])

\* C9: for every result map and every pair of preferences the strict tier
\* keeps a subset of what the loose tier keeps, which keeps a subset of all
\* candidates; and without preferences the strict tier keeps them all.
C9_TiersNested ==
    /\ Range(StrictMetadatas) \subseteq Range(LooseMetadatas)
    /\ Range(LooseMetadatas) \subseteq Range(list_metadatas(metadatas))
    /\ Range(StrictCoverUrls) \subseteq Range(LooseCoverUrls)
    /\ Range(LooseCoverUrls) \subseteq Range(list_cover_urls(cover_urls))
    /\ filter_metadatas_strictly(metadatas, NoneInt, None)
          = list_metadatas(metadatas)
    /\ filter_cover_urls_strictly(cover_urls, NoneInt, None)
          = list_cover_urls(cover_urls)

\* The cascade has run with both preferences set and the three tiers differ
\* on both maps.
C9_Witness ==
    /\ pc = "done"
    /\ Preferred[1] # NoneInt /\ Preferred[2] # None
    /\ StrictMetadatas # <<>>
    /\ Len(StrictMetadatas) < Len(LooseMetadatas)
    /\ Len(LooseMetadatas) < Len(list_metadatas(metadatas))
    /\ StrictCoverUrls # <<>>
    /\ Len(StrictCoverUrls) < Len(LooseCoverUrls)
    /\ Len(LooseCoverUrls) < Len(list_cover_urls(cover_urls))

\* The first of three lists that is not empty (the last if all are).
FirstNonEmpty(a, b, c) == IF a # <<>> THEN a ELSE IF b # <<>> THEN b ELSE c

\* Both maps hold the same candidates: key, edition id and ISBN.
SameCandidates ==
    /\ DOMAIN metadatas = DOMAIN cover_urls
    /\ \A k \in DOMAIN metadatas :
          /\ IntOf(metadatas[k].identifiers["moly-edition"])
                = cover_urls[k].book_edition_id
          /\ metadatas[k].identifiers["isbn"] = cover_urls[k].isbn
          /\ cover_urls[k].url.file = k

\* C10: what is put into the sink, and what is handed to the downloader, is
\* the strict tier if it is not empty, else the loose tier if it is not
\* empty, else every candidate, in ascending order of the relevance key;
\* and for the same candidates both paths keep the same keys.
C10_CascadeEmitsFirstNonEmptyTier ==
    /\ (op = "identify" /\ pc = "done" /\ ret = "None") =>
          /\ results = FirstNonEmpty(StrictMetadatas, LooseMetadatas,
                                     list_metadatas(metadatas))
          /\ Ascending([j \in DOMAIN results |->
                           results[j].source_relevance])
    /\ (op = "download_cover" /\ pc = "done" /\ ret = "None"
        /\ cover_urls # EmptyDict) =>
          /\ Len(downloads) = 1
          /\ downloads[1].urls =
                FirstNonEmpty(StrictCoverUrls, LooseCoverUrls,
                              list_cover_urls(cover_urls))
    /\ (pc = "done" /\ ret = "Could not find covers") =>
          /\ downloads = <<>>
          /\ list_cover_urls(cover_urls) = <<>>
    /\ SameCandidates =>
          {m.source_relevance :
              m \in Range(cascade_metadatas(metadatas, request.identifiers))}
          = {u.file :
              u \in Range(cascade_cover_urls(cover_urls,
                                             request.identifiers))}
          /\ Ascending([j \in DOMAIN cascade_cover_urls(cover_urls,
                                         request.identifiers) |->
                cascade_cover_urls(cover_urls, request.identifiers)[j].file])

\* The strict tier is empty, the loose tier is not and is not everything,
\* and the loose tier has been put into the sink.
C10_Witness ==
    /\ op = "identify" /\ pc = "done" /\ ret = "None"
    /\ StrictMetadatas = <<>>
    /\ LooseMetadatas # <<>>
    /\ Len(LooseMetadatas) < Len(list_metadatas(metadatas))
    /\ results = LooseMetadatas

\* C11: after a cover fan-out that completed, the call returns "Could not
\* find covers" exactly when the cover map is empty (which is when all three
\* tiers are empty), and then the downloader is not called; otherwise the
\* downloader is called once, with the list the cascade left and the
\* get_best_cover flag of the caller, and the call returns None.
C11_CoversFoundOrDownloaded ==
    /\ [][(pc = "filter" /\ op = "download_cover" /\ pc' = "done") =>
            IF cover_urls = EmptyDict
            THEN ret' = "Could not find covers" /\ downloads' = downloads
            ELSE /\ ret' = "None"
                 /\ downloads' = Append(downloads,
                       [urls |-> FirstNonEmpty(StrictCoverUrls,
                                     LooseCoverUrls,
                                     list_cover_urls(cover_urls)),
                        get_best_cover |-> request.get_best_cover])]_vars
    /\ []((StrictCoverUrls = <<>> /\ LooseCoverUrls = <<>>
           /\ list_cover_urls(cover_urls) = <<>>) <=> cover_urls = EmptyDict)
    /\ [](ret = "Could not find covers" =>
             downloads = <<>> /\ cover_urls = EmptyDict)
    /\ [](Len(downloads) <= 1)

\* A cover fan-out has completed and the downloader was called with the
\* covers it found and the flag set.
C11_Witness ==
    /\ op = "download_cover" /\ pc = "done" /\ ret = "None"
    /\ started # <<>>
    /\ cover_urls # EmptyDict
    /\ Len(downloads) = 1
    /\ downloads[1].get_best_cover

\* The edition id under which the cache is asked for the cover of the
\* request: the "moly-edition" identifier, else the edition the ISBN was
\* registered with (NoneInt: neither).
CachedEdition ==
    IF "moly-edition" \in DOMAIN request.identifiers
    THEN IntOf(request.identifiers["moly-edition"])
    ELSE IF "isbn" \in DOMAIN request.identifiers
            /\ request.identifiers["isbn"] \in DOMAIN isbn_cache
         THEN isbn_cache[request.identifiers["isbn"]]
         ELSE NoneInt

CacheHit == CachedEdition \in DOMAIN cover_cache

\* C12: when the cache holds a cover for the request, download_cover opens
\* no URL, resolves no id, sends no query and starts no worker; it hands the
\* downloader the big variant and then the cached URL, and returns None.
C12_CachedCoverBypassesGateway ==
    /\ []((op = "download_cover" /\ CacheHit) =>
             /\ pc \in {"cached_cover", "done"}
             /\ opened = 0 /\ queried = <<>> /\ book_ids = <<>>
             /\ fetchers = <<>> /\ started = <<>>)
    /\ [][(op = "download_cover" /\ CacheHit /\ pc' # pc) =>
             /\ pc = "cached_cover" /\ pc' = "done" /\ ret' = "None"
             /\ downloads' =
                  <<[urls |-> <<CoverUrlOf("big",
                                   cover_cache[CachedEdition].file),
                                cover_cache[CachedEdition]>>,
                     get_best_cover |-> request.get_best_cover]>>]_vars

\* The cover was found in the cache through the ISBN of the request.
C12_Witness ==
    /\ op = "download_cover" /\ pc = "done" /\ CacheHit
    /\ "moly-edition" \notin DOMAIN request.identifiers
    /\ Len(downloads) = 1

\* C13: no transport failure of an HTTP call leaves the gateway as an
\* exception: neither the entry point nor a worker ends with one.
C13_NoTransportExceptionEscapes ==
    /\ ret # "URLError"
    /\ \A k \in DOMAIN fetchers : fetchers[k].exc # "URLError"

\* The calling thread is about to call a gateway operation that opens a URL.
CallerAtGateway ==
    \/ pc = "fetch_book_ids" /\ "isbn" \in DOMAIN request.identifiers
    \/ pc = "search" /\ ~exhausted(get_search_queries(request), queried)

\* Worker k is about to call a gateway operation.
WorkerAtGateway(k) ==
    fetchers[k].st \in {"fetch_book", "fetch_book_series",
                        "fetch_book_editions"}

WrongShape(accessor) ==
    {"bool", "int", "float", "str", "list", "object"} \
       CASE accessor = "get_object" -> {"object"}
         [] accessor = "get_list" -> {"list"}
         [] accessor \in {"get_optional_int", "get_int"} -> {"int"}
         [] accessor = "get_float" -> {"float", "int"}
         [] OTHER -> {"str"}

\* C15: a required accessor fails with LookupError on an absent key, and
\* every accessor fails with JsonError on a value of the wrong shape.
C15_MissingFieldOrTypeMismatch ==
    accessed.outcome \notin {"none", "pending"} =>
       /\ (accessed.kind = "absent"
           /\ accessed.accessor \notin {"get_optional_int",
                                        "get_optional_str"})
             => accessed.outcome = "LookupError"
       /\ accessed.kind \in WrongShape(accessed.accessor)
             => accessed.outcome = "JsonError"

\* The anchor the parser was fed last.
LastAnchor(fed) == fed[Len(fed)]

\* C16: no two stored entries share a URL; an anchor with a stored URL adds
\* no entry and changes no name and no position, and it replaces the index
\* only of the entry with its URL, only when that index is 0.0 and the new
\* one is not; an index that is not 0.0 never changes.
C16_SeriesDedupByUrl ==
    /\ [](\A i, j \in DOMAIN series :
             series[i].url = series[j].url => i = j)
    /\ [][(anchors' # anchors /\ LastAnchor(anchors').exc = "none") =>
            LET a == LastAnchor(anchors')
                new_index == series_index_of(a.text)
            IN  IF \E j \in DOMAIN series : series[j].url = a.url
                THEN /\ Len(series') = Len(series)
                     /\ \A j \in DOMAIN series :
                          /\ series'[j].series = series[j].series
                          /\ series'[j].url = series[j].url
                          /\ series'[j].series_index =
                               IF series[j].url = a.url
                                  /\ series[j].series_index = 0
                                  /\ new_index # 0
                               THEN new_index
                               ELSE series[j].series_index
                ELSE series' = Append(series,
                        Series(a.text.name, new_index, a.url))]_vars
    /\ [][\A j \in DOMAIN series :
             series[j].series_index # 0 => series'[j] = series[j]]_vars

\* One URL was met first without an index and then with the index 3.5 under
\* another name: one entry, the first name, the index 3.5.
C16_Witness ==
    /\ Len(anchors) = 2
    /\ anchors[1].url = anchors[2].url
    /\ anchors[1].text.suffix = NoSuffix
    /\ anchors[1].text.name # anchors[2].text.name
    /\ series = <<Series(anchors[1].text.name, 35, anchors[1].url)>>

\* The fan-out has ended by the return of fetch_multiple.
Joined == pc = "filter" \/ Completed

\* The keys of the result maps.
ResultKeys == DOMAIN metadatas \cup DOMAIN cover_urls

\* The book the record under a key of the result maps was built from.
BookOf(key) ==
    IF key \in DOMAIN metadatas
    THEN IntOf(metadatas[key].identifiers["moly"])
    ELSE cover_urls[key].book_id

\* Every key the worker at position k wrote is in the result maps, with a
\* record of the book of that worker.
RecordsPresent(k) ==
    \A w \in written :
       w.relevance = fetchers[k].relevance =>
          w.key \in ResultKeys /\ BookOf(w.key) = fetchers[k].book_id

\* C17: a worker that ended by an exception, like one whose book was not
\* found, has written no record; and the records of every worker that
\* returned are in the result maps when the fan-out has ended.
C17_FailedWorkerWritesNothing ==
    /\ \A k \in DOMAIN fetchers :
          fetchers[k].st = "died" =>
             \A w \in written : w.relevance # fetchers[k].relevance
    /\ Joined =>
          \A k \in DOMAIN fetchers :
             fetchers[k].st = "finished" => RecordsPresent(k)

\* C18: after the fan-out the result maps hold no record of the rank of a
\* worker that met a malformed payload, and every record of its siblings.
C18_MalformedCandidateLeavesNoRecord ==
    Joined =>
       \A k \in DOMAIN fetchers :
          fetchers[k].exc = "JsonError" =>
             /\ ResultKeys \cap KeysOfRank(fetchers[k].relevance) = {}
             /\ \A j \in DOMAIN fetchers \ {k} :
                   fetchers[j].st = "finished" => RecordsPresent(j)

\* fetch_multiple has given control back to the entry point.
FanOutEnded ==
    fetchers # <<>> /\ pc \in {"filter", "done"}

\* C19: once fetch_multiple has ended, by its return or by Aborted, no
\* worker it started is alive, and the result maps do not change any more.
C19_FanOutEndsAfterWorkers ==
    /\ [](FanOutEnded => \A k \in DOMAIN fetchers : ~is_alive(fetchers[k]))
    /\ [][FanOutEnded =>
             (metadatas' = metadatas /\ cover_urls' = cover_urls)]_vars

\* C20: once the cancellation signal is set during the stagger loop, after
\* some worker was started, no further worker is started, and the loop ends
\* by Aborted.
C20_NoStartAfterAbort ==
    /\ [][(abort /\ started # <<>>) => started' = started]_vars
    /\ [][(abort /\ pc \in {"start", "check"} /\ pc' \notin {"start", "check"})
             => (pc' = "done" /\ ret' = "Aborted")]_vars

\* The keys the worker of rank r has written into a result map.
KeysWrittenBy(r) == {w.key : w \in {x \in written : x.relevance = r}}

\* The record of edition j of book b carries the ids and the ISBN.
Carries(record, b, j) ==
    /\ record.identifiers["moly"] = StrOf(b)
    /\ record.identifiers["moly-edition"] = StrOf(EditionId(b, j))
    /\ record.identifiers["isbn"] = EditionIsbn(b, j)

\* C21: on the metadata path a worker of rank r that has processed i
\* editions has written exactly the keys 100 r, ..., 100 r + i - 1, and a
\* worker that returns has processed all N editions of its book (none when
\* the book has none or its editions could not be fetched); the record under
\* 100 r + i is written with the book id, the edition id and the ISBN of
\* the i-th edition (counted from 0).
C21_EditionsWrittenInOrder ==
    /\ [](op = "identify" =>
            \A k \in DOMAIN fetchers :
               LET f == fetchers[k]
               IN  /\ KeysWrittenBy(f.relevance) =
                         {RelevanceStride * f.relevance + c :
                             c \in 0..(f.i - 1)}
                   /\ f.st = "finished" => f.i = f.n
                   /\ f.n = 0 => KeysWrittenBy(f.relevance) = {})
    /\ [][op = "identify" =>
            \A k \in DOMAIN fetchers :
               (k \in DOMAIN fetchers' /\ fetchers'[k].i = fetchers[k].i + 1)
               => LET f == fetchers[k]
                      key == RelevanceStride * f.relevance + f.i
                  IN  /\ key \in DOMAIN metadatas'
                      /\ Carries(metadatas'[key], f.book_id, f.i + 1)
                      /\ \A other \in DOMAIN metadatas \ {key} :
                            /\ other \in DOMAIN metadatas'
                            /\ metadatas'[other] = metadatas[other]]_vars

C21_Witness ==
    /\ op = "identify"
    /\ \E k \in DOMAIN fetchers :
          /\ fetchers[k].relevance = 1
          /\ fetchers[k].st = "finished"
          /\ fetchers[k].n = MaxEditions
          /\ KeysWrittenBy(1) =
                {RelevanceStride + c : c \in 0..(MaxEditions - 1)}
          /\ Carries(metadatas[RelevanceStride + 1], fetchers[k].book_id, 2)

\* The cover an edition counts with: its own, or else the one of its book.
EffectiveCover(b, j) ==
    IF EditionCover(b, j) # NoUrl THEN EditionCover(b, j) ELSE BookCover(b)

\* The editions among the first m of book b that have an effective cover,
\* and the number of those before edition j.
Covered(b, m) == {j \in 1..m : EffectiveCover(b, j) # NoUrl}
CoveredBefore(b, j) == Cardinality(Covered(b, j - 1))

C23_CoversCachedByIdentify ==
    /\ [](op = "identify" =>
            \A k \in DOMAIN fetchers : \A j \in 1..fetchers[k].i :
               LET b == fetchers[k].book_id
                   key == RelevanceStride * fetchers[k].relevance + j - 1
               IN  /\ key \in DOMAIN metadatas
                   /\ IF EditionCover(b, j) # NoUrl
                      THEN /\ get_cached_cover_url(
                                 Identifiers(None, None,
                                             StrOf(EditionId(b, j))))
                                 = EditionCover(b, j)
                           /\ EditionIsbn(b, j) \in DOMAIN isbn_cache
                           /\ isbn_cache[EditionIsbn(b, j)]
                                 \in DOMAIN cover_cache
                           /\ get_cached_cover_url(
                                 Identifiers(None, EditionIsbn(b, j), None))
                                 \in Range([e \in DOMAIN cover_cache |->
                                               cover_cache[e]])
                           /\ metadatas[key].has_cached_cover_url
                      ELSE ~metadatas[key].has_cached_cover_url)
    /\ [][op = "identify" =>
            \A k \in DOMAIN fetchers :
               (/\ k \in DOMAIN fetchers'
                /\ fetchers'[k].i = fetchers[k].i + 1
                /\ EditionCover(fetchers[k].book_id, fetchers[k].i + 1)
                      = NoUrl)
               => (isbn_cache' = isbn_cache /\ cover_cache' = cover_cache)]_vars

\* identify has completed on a cold cache after a worker processed an
\* edition with a cover and one without.
C23_Witness ==
    /\ op = "identify" /\ pc = "done" /\ ret = "None"
    /\ \E k \in DOMAIN fetchers :
          /\ fetchers[k].book_id = 1 /\ fetchers[k].i = 2
          /\ EditionId(1, 1) \in DOMAIN cover_cache
          /\ EditionId(1, 2) \notin DOMAIN cover_cache
          /\ isbn_cache = WarmIsbnCache
          /\ cover_cache = WarmCoverCache

\* The loose test as the claim words it.
Keeps(edition, isbn) ==
    \/ (Preferred[1] = NoneInt \/ edition = Preferred[1])
    \/ (Preferred[2] = None \/ isbn = Preferred[2])

\* C24: the loose tier keeps a candidate exactly when the preferred edition
\* id is unset or equal to its own, or the preferred ISBN is unset or equal
\* to its own; so with a preference unset it keeps every candidate.
C24_LooseTier ==
    /\ \A k \in DOMAIN metadatas :
          (metadatas[k] \in Range(LooseMetadatas))
             <=> Keeps(get_book_edition_id(metadatas[k].identifiers),
                       Get(metadatas[k].identifiers, "isbn"))
    /\ \A k \in DOMAIN cover_urls :
          (cover_urls[k].url \in Range(LooseCoverUrls))
             <=> Keeps(cover_urls[k].book_edition_id, cover_urls[k].isbn)
    /\ (Preferred[1] = NoneInt \/ Preferred[2] = None) =>
          /\ LooseMetadatas = list_metadatas(metadatas)
          /\ LooseCoverUrls = list_cover_urls(cover_urls)

\* The cascade has run with the preferred edition unset and a preferred
\* ISBN that no candidate has: the strict tier is empty and the loose tier
\* hands over every candidate.
C24_Witness ==
    /\ pc = "done" /\ op = "identify"
    /\ Preferred[1] = NoneInt /\ Preferred[2] # None
    /\ StrictMetadatas = <<>>
    /\ Len(LooseMetadatas) = MaxCandidates
    /\ results = LooseMetadatas

\* The kind of value an accessor is named for.
Named(accessor) ==
    CASE accessor = "get_object" -> "object"
      [] accessor = "get_list" -> "list"
      [] accessor \in {"get_optional_int", "get_int"} -> "int"
      [] accessor = "get_float" -> "float"
      [] OTHER -> "str"

\* C25: an accessor returns a value only of the kind it is named for (an
\* integer accessor never a boolean), and fails on every other value under
\* the key.
C25_AccessorsReturnTheirKind ==
    /\ accessed.outcome = "value" => accessed.kind = Named(accessed.accessor)
    /\ (/\ accessed.outcome \notin {"none", "pending"}
        /\ accessed.kind \notin {"absent", "null", Named(accessed.accessor)})
       => accessed.outcome \in {"JsonError", "LookupError"}

\* The index the label of an anchor stands for: the number of its suffix if
\* that parses as a number, else 0.0.
IndexOfLabel(text) ==
    IF text.suffix = NoSuffix \/ text.suffix.rest # <<>> THEN 0
    ELSE 10 * IntOf(text.suffix.whole)
            + (IF text.suffix.frac = <<>> THEN 0 ELSE text.suffix.frac[1])

\* C26: closing a series anchor never fails and yields an entry: afterwards
\* an entry with the URL of the anchor is stored, and the entry the first
\* anchor adds has the index its label stands for, 0.0 when no suffix
\* parses.
C26_ClosingAnAnchorNeverFails ==
    /\ \A j \in DOMAIN anchors :
          /\ anchors[j].exc = "none"
          /\ \E l \in DOMAIN series : series[l].url = anchors[j].url
    /\ Len(anchors) = 1 =>
          /\ Len(series) = 1
          /\ series[1].series_index = IndexOfLabel(anchors[1].text)

\* The code a tag stands for, however it is written ("None": no code).
CodeOf(tag) ==
    CASE tag.text = "angol nyelvu" -> "en"
      [] tag.text = "magyar nyelvu" -> "hu"
      [] OTHER -> "None"

\* C27: the languages of a record are never empty: they are the codes of
\* the tags that stand for a known language, in tag order, or "hu" alone
\* when there is none; no tag that ends in the marker, known or not, and no
\* tag that yields a code is among the tags of the record.
C27_LanguagesFromTags ==
    tagged.done =>
       LET codes == SelectSeq([j \in DOMAIN tagged.tags |->
                                  CodeOf(tagged.tags[j])],
                              LAMBDA c : c # "None")
       IN  /\ tagged.languages # <<>>
           /\ tagged.languages = IF codes = <<>> THEN <<"hu">> ELSE codes
           /\ \A j \in DOMAIN tagged.tags :
                 (tagged.tags[j].form = "plain"
                  /\ tagged.tags[j].text # "sci-fi")
                 => tagged.tags[j] \notin Range(tagged.kept)
           /\ \A j \in DOMAIN tagged.tags :
                 CodeOf(tagged.tags[j]) # "None"
                 => tagged.tags[j] \notin Range(tagged.kept)

\* The sequence of queries as the claim words it.
ExpectedQueries ==
    LET t == request.title.tokens
        s == request.title.stripped
        a == request.authors
    IN  (IF t # <<>> /\ a # <<>> THEN <<t \o a>> ELSE <<>>)
        \o (IF t # <<>> THEN <<t>> ELSE <<>>)
        \o (IF s # t
            THEN (IF a # <<>> THEN <<s \o a>> ELSE <<>>) \o <<s>>
            ELSE <<>>)

\* C28: the queries of a request are at most four: title and author tokens
\* (both given), title tokens (given), and, when the stripped title tokens
\* differ, the same two with the stripped tokens; without title tokens
\* there is none; the queries sent at any time of the search are the first
\* of that one sequence, in its order.
C28_QueriesOfARequest ==
    /\ Len(get_search_queries(request)) <= 4
    /\ get_search_queries(request) = ExpectedQueries
    /\ request.title.tokens = <<>> => get_search_queries(request) = <<>>
    /\ IsPrefix(queried, ExpectedQueries)

\* A search with four queries has sent them all and found nothing.
C28_Witness ==
    /\ pc = "done" /\ ret = "No matches found"
    /\ queried = get_search_queries(request)
    /\ Len(queried) = 4

\* C29: every worker opens its URLs through the session of its own clone,
\* which is not the session of the calling thread nor of another worker;
\* and its clone refers to the cancellation signal, the sink and the result
\* maps of the calling thread.
C29_WorkersUseTheirOwnSession ==
    /\ \A k \in DOMAIN clients :
          /\ clients[k].browser # create_request.browser
          /\ \A j \in DOMAIN clients \ {k} :
                clients[j].browser # clients[k].browser
          /\ clients[k].abort_event = create_request.abort_event
          /\ clients[k].results = create_request.results
          /\ clients[k].metadatas = create_request.metadatas
          /\ clients[k].cover_urls = create_request.cover_urls
    /\ \A u \in used :
          /\ u.by = 0 => u.browser = create_request.browser
          /\ u.by # 0 => /\ u.by \in DOMAIN clients
                         /\ u.browser = clients[u.by].browser
                         /\ u.browser # create_request.browser
    /\ \A u, v \in used : u.by # v.by => u.browser # v.browser

\* The calling thread and two workers have opened URLs, the worker started
\* second before the one started first.
C29_Witness ==
    /\ \E u, v, w \in used : u.by = 0 /\ v.by = 1 /\ w.by = 2
    /\ 1 \in DOMAIN clients /\ 2 \in DOMAIN clients
    /\ clients[2].browser < clients[1].browser

\* C30: when identify returns "Aborted" or "No matches found" the sink
\* holds no record, whatever the workers have written into the result map.
C30_NothingPutWithoutResult ==
    (op = "identify" /\ ret \in {"Aborted", "No matches found"})
       => results = <<>>

\* identify has returned "Aborted" after a worker wrote a record.
C30_Witness ==
    /\ op = "identify" /\ ret = "Aborted"
    /\ metadatas # EmptyDict
    /\ results = <<>>

\* C31: under fairness every call of identify and of download_cover ends;
\* the stagger loop starts every thread at most once, and the join loop is
\* left once no started worker is alive, whether the workers returned or
\* died of an exception.
C31_EveryCallEnds ==
    /\ <>(pc = "done")
    /\ [](Len(started) <= Len(fetchers)
          /\ \A i, j \in DOMAIN started :
                started[i].relevance = started[j].relevance => i = j)
    /\ (pc = "join" /\ \A k \in DOMAIN fetchers : ~is_alive(fetchers[k]))
          ~> (pc \in {"filter", "done"})

\* A call has ended after the join loop although a worker died of an
\* exception.
C31_Witness ==
    /\ pc = "done" /\ ret = "None"
    /\ Len(started) = MaxMatches
    /\ \E k \in DOMAIN fetchers : fetchers[k].st = "died"

\* C32: every query sent to the search holds a token of the title: none is
\* empty and none is made of author tokens alone, also when nothing is left
\* of the title once its subtitle is stripped.
C32_EveryQueryHasATitleToken ==
    \A j \in DOMAIN queried :
       Range(queried[j]) \cap Range(request.title.tokens) # {}

\* The request carries an ISBN and no book id, or at most an edition id.
IsbnOnly ==
    "isbn" \in DOMAIN request.identifiers
    /\ "moly" \notin DOMAIN request.identifiers

EditionOnly == DOMAIN request.identifiers \subseteq {"moly-edition"}

\* C33: with an ISBN and no book id, fetch_book_ids ends with the one id
\* the lookup gave, and then no query is ever sent, or without an id when
\* the lookup gave no answer, and then the queries are sent in their order
\* (or it ends the call, by Aborted or by the exception of the lookup); with
\* at most an edition id it opens no URL and resolves nothing, so that the
\* search follows.
C33_IsbnOnlyResolution ==
    /\ [][(IsbnOnly /\ pc = "fetch_book_ids" /\ pc' # pc) =>
            \/ /\ pc' = "fetchers"
               /\ Len(book_ids') = 1 /\ book_ids'[1] \in BookIds
               /\ opened' = opened + 1
               /\ queried' = <<>>
            \/ /\ pc' = "search"
               /\ book_ids' = <<>>
               /\ opened' = opened + 1
               /\ queried' = <<>>
            \/ /\ pc' = "done"
               /\ ret' \in {"Aborted", "URLError", "JsonError"}
               /\ book_ids' = <<>>]_vars
    /\ [][(EditionOnly /\ pc = "fetch_book_ids" /\ pc' # pc) =>
            (pc' = "search" /\ book_ids' = <<>> /\ opened' = opened)]_vars
    /\ [][(IsbnOnly /\ pc \notin {"fetch_book_ids", "search"})
             => queried' = queried]_vars
    /\ []((IsbnOnly \/ EditionOnly) =>
             IsPrefix(queried, get_search_queries(request)))

\* The lookup of a request with an ISBN and an edition id gave book 2, and
\* the fan-out follows without a query.
C33_Witness ==
    /\ IsbnOnly /\ "moly-edition" \in DOMAIN request.identifiers
    /\ request.title.tokens # <<>>
    /\ pc = "fetchers"
    /\ book_ids = <<2>>
    /\ queried = <<>>


====
